---------------------------- MODULE Spec2Model ----------------------------
(***************************************************************************)
(* A model of the conditional top-K collector of tique                     *)
(* (tique/src/conditional_collector/top_collector.rs) and of the record    *)
(* store of cantine (crates/cantine/src/database/database.rs).             *)
(*                                                                         *)
(* Scores are 32-bit floats in the program; only their order is used, so   *)
(* they are the integers 1..MaxScore here (finite, totally ordered).       *)
(* A document address is <<segment_id, doc_id>>, an item of a fruit is     *)
(* <<score, <<segment_id, doc_id>>>>, an entry of a Top-K container is     *)
(* <<score, doc_id>>.                                                      *)
(***************************************************************************)
EXTENDS Integers, Sequences, FiniteSets, TLC

\* ------------------------------------------------------------------ bounds
NumSegs == 2
MaxDoc == 1
MaxScore == 2
MaxLimit == 2
MaxCalls == 2
MaxDocs == 2
MaxId == 1
MaxAdds == 2
MaxObjLen == 1
MaxByte == 2
MaxEntries == 2
MaxOffset == 2
MaxDataLen == 2

Segments == 0..(NumSegs - 1)
DocIds == 0..MaxDoc
Scores == 1..MaxScore
Limits == 0..MaxLimit
Policies == {"Ascending", "Descending"}
Addrs == Segments \X DocIds
\* The Markers a query is started with: any score, at the last document of
\* segment 0 (there are addresses before it, at it and after it).
Markers == Scores \X {<<0, MaxDoc>>}

\* Option<T>: None is the empty sequence, Some(x) the one-element sequence.
None == <<>>
Some(x) == <<x>>
Get(o) == o[1]

\* ------------------------------------------------------------- the state
VARIABLES
    tc,        \* the TopCollector: [st, limit, policy, condition]
    segc,      \* segment_id -> its TopSegmentCollector, or None
    fruits,    \* segment_id -> the fruit harvested from it, or None
    merged,    \* the fruit returned by merge_fruits, or None
    seen,      \* segment_id -> the set of <<doc, score>> passed to collect
    arrived    \* segment_id -> the <<doc, score>> passed to collect, in call order

\* Paginated searches over a fixed index (each search is one action).
VARIABLES
    docs,      \* the documents the query matches: a set of items <<score, address>>
    q,         \* the TopCollector of the next search
    pages,     \* the pages returned so far, concatenated
    pdone,     \* a page came back empty
    both       \* the fruits of an Ascending and a Descending collector run together

\* The record store.
VARIABLES
    data,      \* data.bin: a sequence of bytes
    logf,      \* log.bin: a sequence of bytes
    db,        \* the open BincodeDatabase: [st, index]
    last,      \* id -> the object most recently added under it, or None
    nadds      \* the number of add calls made

cvars == <<tc, segc, fruits, merged, seen, arrived>>
svars == <<docs, q, pages, pdone, both>>
dvars == <<data, logf, db, last, nadds>>
vars == <<tc, segc, fruits, merged, seen, arrived, docs, q, pages, pdone, both,
          data, logf, db, last, nadds>>

\* --------------------------------------------------------- pure helpers
Min(a, b) == IF a <= b THEN a ELSE b

Range(s) == {s[i] : i \in 1..Len(s)}

\* The first n elements of s (Vec::truncate).
Take(s, n) == SubSeq(s, 1, Min(n, Len(s)))

RECURSIVE Concat(_)
Concat(ss) == IF ss = <<>> THEN <<>> ELSE Head(ss) \o Concat(Tail(ss))

RECURSIVE SumOf(_, _)
SumOf(fs, field) ==
    IF fs = <<>> THEN 0 ELSE (Head(fs))[field] + SumOf(Tail(fs), field)

\* All orderings of a finite set, as sequences.
RECURSIVE Perms(_)
Perms(S) ==
    IF S = {} THEN {<<>>}
    ELSE UNION {{<<x>> \o p : p \in Perms(S \ {x})} : x \in S}

\* ------------------------------------------------------- Ordering Policy
\* "better" = smaller for Ascending, larger for Descending.
Better(policy, s1, s2) ==
    IF policy = "Ascending" THEN s1 < s2 ELSE s1 > s2

\* DocAddress(segment_id, doc_id) compares segment first, then doc.
AddrLess(x, y) == x[1] < y[1] \/ (x[1] = y[1] /\ x[2] < y[2])

\* The Policy's total order on items <<score, address>>: score by direction,
\* then address ascending.
Before(policy, a, b) ==
    \/ Better(policy, a[1], b[1])
    \/ (a[1] = b[1] /\ AddrLess(a[2], b[2]))

\* The same order inside one container, whose entries are <<score, doc_id>>.
DocBefore(policy, a, b) ==
    \/ Better(policy, a[1], b[1])
    \/ (a[1] = b[1] /\ a[2] < b[2])

\* --------------------------------------------------- Bounded Top-K container
new_topk(policy, limit) == [policy |-> policy, limit |-> limit, heap |-> <<>>]

\* The index of the worst held entry: every other entry is before it.
WorstIdx(k) ==
    CHOOSE i \in 1..Len(k.heap) :
        \A j \in 1..Len(k.heap) : j # i => DocBefore(k.policy, k.heap[j], k.heap[i])

visit(k, score, doc) ==
    IF Len(k.heap) < k.limit
    THEN [k EXCEPT !.heap = Append(@, <<score, doc>>)]
    ELSE LET w == WorstIdx(k) IN
         IF DocBefore(k.policy, <<score, doc>>, k.heap[w])
         THEN [k EXCEPT !.heap[w] = <<score, doc>>]
         ELSE k

into_vec(k) == k.heap

\* Insertion of x into a sequence sorted by the Policy's total order.
RECURSIVE InsertSorted(_, _, _)
InsertSorted(policy, s, x) ==
    IF s = <<>> THEN <<x>>
    ELSE IF Before(policy, x, Head(s)) THEN <<x>> \o s
    ELSE <<Head(s)>> \o InsertSorted(policy, Tail(s), x)

RECURSIVE SortItems(_, _)
SortItems(policy, s) ==
    IF s = <<>> THEN <<>>
    ELSE InsertSorted(policy, SortItems(policy, Tail(s)), Head(s))

\* Concatenate the items, sum total and visited, sort, truncate to limit.
merge_many(policy, limit, children) ==
    [total   |-> SumOf(children, "total"),
     visited |-> SumOf(children, "visited"),
     items   |-> Take(SortItems(policy,
                        Concat([i \in 1..Len(children) |-> children[i].items])),
                      limit)]

\* ------------------------------------------------------------- Condition
TrueCond == [kind |-> "true", marker |-> None]
FalseCond == [kind |-> "false", marker |-> None]
OddCond == [kind |-> "odd", marker |-> None]
MarkerCond(m) == [kind |-> "marker", marker |-> Some(m)]

Conditions == {TrueCond, FalseCond, OddCond} \cup {MarkerCond(m) : m \in Markers}

\* CheckCondition::check(segment_id, doc_id, score) for the Policy's container.
check(cond, policy, segment_id, doc, score) ==
    CASE cond.kind = "true" -> TRUE
      [] cond.kind = "false" -> FALSE
      [] cond.kind = "odd" -> doc % 2 = 1
      [] cond.kind = "marker" ->
            Before(policy, Get(cond.marker), <<score, <<segment_id, doc>>>>)

\* ---------------------------------------------------------- TopCollector
\* new without the check of limit.
new_unchecked(limit, policy, condition_factory) ==
    [st |-> "ok", limit |-> limit, policy |-> policy,
     condition |-> condition_factory]

\* TopCollector::new: panics when limit < 1.
new(limit, policy, condition_factory) ==
    IF limit < 1
    THEN [st |-> "panicked", limit |-> limit, policy |-> policy,
          condition |-> condition_factory]
    ELSE [st |-> "ok", limit |-> limit, policy |-> policy,
          condition |-> condition_factory]

\* TopSegmentCollector::new
new_segment(segment_id, topk, condition) ==
    [total |-> 0, visited |-> 0, segment_id |-> segment_id,
     topk |-> topk, condition |-> condition]

\* for_segment with a container one entry too large.
for_segment_wide(c, segment_id) ==
    new_segment(segment_id, new_topk(c.policy, c.limit + 1), c.condition)

\* for_segment with a container for the single best entry, whatever the limit.
for_segment_one(c, segment_id) ==
    new_segment(segment_id, new_topk(c.policy, 1), c.condition)

for_segment(c, segment_id) ==
    new_segment(segment_id, new_topk(c.policy, c.limit), c.condition)

\* collect handing (doc, segment_id) to the Condition in the wrong order.
collect_swapped(sc, doc, score) ==
    LET counted == [sc EXCEPT !.total = @ + 1] IN
    IF check(sc.condition, sc.topk.policy, doc, sc.segment_id, score)
    THEN [counted EXCEPT !.visited = @ + 1, !.topk = visit(@, score, doc)]
    ELSE counted

\* collect counting only the documents the Condition lets through.
collect_total_late(sc, doc, score) ==
    IF check(sc.condition, sc.topk.policy, sc.segment_id, doc, score)
    THEN [sc EXCEPT !.total = @ + 1, !.visited = @ + 1,
                    !.topk = visit(@, score, doc)]
    ELSE sc

\* collect counting every document as visited.
collect_visited_early(sc, doc, score) ==
    LET counted == [sc EXCEPT !.total = @ + 1, !.visited = @ + 1] IN
    IF check(sc.condition, sc.topk.policy, sc.segment_id, doc, score)
    THEN [counted EXCEPT !.topk = visit(@, score, doc)]
    ELSE counted

\* collect visiting the container whatever the Condition says.
collect_unconditional(sc, doc, score) ==
    LET counted == [sc EXCEPT !.total = @ + 1, !.topk = visit(@, score, doc)] IN
    IF check(sc.condition, sc.topk.policy, sc.segment_id, doc, score)
    THEN [counted EXCEPT !.visited = @ + 1]
    ELSE counted

\* collect counting a document as visited and forgetting to visit.
collect_no_visit(sc, doc, score) ==
    LET counted == [sc EXCEPT !.total = @ + 1] IN
    IF check(sc.condition, sc.topk.policy, sc.segment_id, doc, score)
    THEN [counted EXCEPT !.visited = @ + 1]
    ELSE counted

\* collect visiting the container twice with the same document.
collect_visit_twice(sc, doc, score) ==
    LET counted == [sc EXCEPT !.total = @ + 1] IN
    IF check(sc.condition, sc.topk.policy, sc.segment_id, doc, score)
    THEN [counted EXCEPT !.visited = @ + 1,
                         !.topk = visit(visit(@, score, doc), score, doc)]
    ELSE counted

collect(sc, doc, score) ==
    LET counted == [sc EXCEPT !.total = @ + 1] IN
    IF check(sc.condition, sc.topk.policy, sc.segment_id, doc, score)
    THEN [counted EXCEPT !.visited = @ + 1, !.topk = visit(@, score, doc)]
    ELSE counted

\* harvest with the two counters exchanged.
harvest_swapped(sc) ==
    LET v == into_vec(sc.topk) IN
    [total   |-> sc.visited,
     visited |-> sc.total,
     items   |-> [i \in 1..Len(v) |-> <<v[i][1], <<sc.segment_id, v[i][2]>>>>]]

\* harvest leaving out the first entry the container hands over.
harvest_short(sc) ==
    LET v == into_vec(sc.topk) IN
    [total   |-> sc.total,
     visited |-> sc.visited,
     items   |-> [i \in 1..(Len(v) - 1) |->
                    <<v[i + 1][1], <<sc.segment_id, v[i + 1][2]>>>>]]

\* harvest building DocAddress(doc, segment_id).
harvest_addr_swapped(sc) ==
    LET v == into_vec(sc.topk) IN
    [total   |-> sc.total,
     visited |-> sc.visited,
     items   |-> [i \in 1..Len(v) |-> <<v[i][1], <<v[i][2], sc.segment_id>>>>]]

harvest(sc) ==
    LET v == into_vec(sc.topk) IN
    [total   |-> sc.total,
     visited |-> sc.visited,
     items   |-> [i \in 1..Len(v) |-> <<v[i][1], <<sc.segment_id, v[i][2]>>>>]]

\* merge_fruits returning the first fruit alone.
merge_fruits_first(c, children) == children[1]

\* merge_fruits merging with the Ascending provider whatever the Policy.
merge_fruits_asc(c, children) == merge_many("Ascending", c.limit, children)

\* merge_fruits asking for one item more than the limit.
merge_fruits_wide(c, children) == merge_many(c.policy, c.limit + 1, children)

merge_fruits(c, children) == merge_many(c.policy, c.limit, children)

\* ------------------------------------------- the idle state of each part
NoCollector == [st |-> "none", limit |-> 0, policy |-> "Ascending",
                condition |-> TrueCond]

SearchIdle ==
    /\ docs = {}
    /\ q = NoCollector
    /\ pages = <<>>
    /\ pdone = FALSE
    /\ both = None

StoreIdle ==
    /\ data = <<>>
    /\ logf = <<>>
    /\ db = [st |-> "closed", index |-> <<>>]
    /\ last = <<>>
    /\ nadds = 0

\* --------------------------------------------------- one query, step by step
\* The number of collect calls made so far, over all segments.
CallsMade == Cardinality(UNION {{<<s, x>> : x \in seen[s]} : s \in Segments})

CollectorInit ==
    /\ tc = NoCollector
    /\ segc = [s \in Segments |-> None]
    /\ fruits = [s \in Segments |-> None]
    /\ merged = None
    /\ seen = [s \in Segments |-> {}]
    /\ arrived = [s \in Segments |-> <<>>]

Init ==
    /\ CollectorInit
    /\ SearchIdle
    /\ StoreIdle

New(limit, policy, cond) ==
    /\ tc.st = "none"
    /\ tc' = new(limit, policy, cond)
    /\ UNCHANGED <<segc, fruits, merged, seen, arrived, svars, dvars>>

ForSegment(s) ==
    /\ tc.st = "ok"
    /\ segc[s] = None
    /\ fruits[s] = None
    /\ merged = None
    /\ segc' = [segc EXCEPT ![s] = Some(for_segment(tc, s))]
    /\ UNCHANGED <<tc, fruits, merged, seen, arrived, svars, dvars>>

Collect(s, doc, score) ==
    /\ segc[s] # None
    /\ \A x \in seen[s] : x[1] # doc
    /\ CallsMade < MaxCalls
    /\ segc' = [segc EXCEPT ![s] = Some(collect(Get(@), doc, score))]
    /\ seen' = [seen EXCEPT ![s] = @ \cup {<<doc, score>>}]
    /\ UNCHANGED <<tc, fruits, merged, arrived, svars, dvars>>

Harvest(s) ==
    /\ segc[s] # None
    /\ fruits' = [fruits EXCEPT ![s] = Some(harvest(Get(segc[s])))]
    /\ segc' = [segc EXCEPT ![s] = None]
    /\ UNCHANGED <<tc, merged, seen, arrived, svars, dvars>>

\* The join barrier: every segment's fruit has been produced.
MergeFruits(order) ==
    /\ tc.st = "ok"
    /\ merged = None
    /\ \A s \in Segments : fruits[s] # None
    /\ merged' = Some(merge_fruits(tc, [i \in 1..Len(order) |-> Get(fruits[order[i]])]))
    /\ UNCHANGED <<tc, segc, fruits, seen, arrived, svars, dvars>>

Next ==
    \/ \E l \in Limits, p \in Policies, c \in Conditions : New(l, p, c)
    \/ \E s \in Segments : ForSegment(s)
    \/ \E s \in Segments, d \in DocIds, sc \in Scores : Collect(s, d, sc)
    \/ \E s \in Segments : Harvest(s)
    \/ \E o \in Perms(Segments) : MergeFruits(o)

Spec == Init /\ [][Next]_vars

\* ------------------------------------------- one segment collector alone
\* for_segment while no other segment collector exists or has existed.
ForSegmentAlone(s) ==
    /\ \A t \in Segments : segc[t] = None /\ fruits[t] = None
    /\ ForSegment(s)

NextSeg ==
    \/ \E l \in Limits, p \in Policies, c \in Conditions : New(l, p, c)
    \/ \E s \in Segments : ForSegmentAlone(s)
    \/ \E s \in Segments, d \in DocIds, sc \in Scores : Collect(s, d, sc)
    \/ \E s \in Segments : Harvest(s)

SpecSeg == Init /\ [][NextSeg]_vars

\* --------------------------------- segment collectors running concurrently
\* The Conditions of the concurrent runs: no filtering, and a filter.
ParConditions == {TrueCond, OddCond}

\* The number of collect calls made so far, over all segments.
CallsArrived == SumOf([i \in 1..NumSegs |-> [n |-> Len(arrived[i - 1])]], "n")

\* A collect call whose counting also reaches the other live collectors.
ArriveShared(s, doc, score) ==
    /\ segc[s] # None
    /\ \A i \in 1..Len(arrived[s]) : arrived[s][i][1] # doc
    /\ CallsArrived < MaxCalls
    /\ segc' = [t \in Segments |->
                  IF t = s THEN Some(collect(Get(segc[s]), doc, score))
                  ELSE IF segc[t] = None THEN None
                  ELSE Some([Get(segc[t]) EXCEPT !.total = @ + 1])]
    /\ arrived' = [arrived EXCEPT ![s] = Append(@, <<doc, score>>)]
    /\ UNCHANGED <<tc, fruits, merged, seen, svars, dvars>>

\* One collect call of the host's scan of segment s, which runs beside the
\* scans of the other segments.
Arrive(s, doc, score) ==
    /\ segc[s] # None
    /\ \A i \in 1..Len(arrived[s]) : arrived[s][i][1] # doc
    /\ CallsArrived < MaxCalls
    /\ segc' = [segc EXCEPT ![s] = Some(collect(Get(@), doc, score))]
    /\ arrived' = [arrived EXCEPT ![s] = Append(@, <<doc, score>>)]
    /\ UNCHANGED <<tc, fruits, merged, seen, svars, dvars>>

NextPar ==
    \/ \E l \in Limits, p \in Policies, c \in ParConditions : New(l, p, c)
    \/ \E s \in Segments : ForSegment(s)
    \/ \E s \in Segments, d \in DocIds, sc \in Scores : Arrive(s, d, sc)
    \/ \E s \in Segments : Harvest(s)
    \/ \E o \in Perms(Segments) : MergeFruits(o)

SpecPar == Init /\ [][NextPar]_vars


\* ------------------------------------------------ paginated searches
\* The indexes: at most MaxDocs documents, each address with one score.
Datasets ==
    UNION {{{<<f[a], a>> : a \in A} : f \in [A -> Scores]} :
             A \in {B \in SUBSET Addrs : Cardinality(B) <= MaxDocs}}

RECURSIVE CollectAll(_, _)
\* The collect calls of one segment, in their arrival order.
CollectAll(sc, arrivals) ==
    IF arrivals = <<>> THEN sc
    ELSE IF Head(arrivals)[2][1] = sc.segment_id
         THEN CollectAll(collect(sc, Head(arrivals)[2][2], Head(arrivals)[1]),
                         Tail(arrivals))
         ELSE CollectAll(sc, Tail(arrivals))

\* One search: a segment collector per segment, every matching document
\* collected in the order arrivals, every fruit harvested, the fruits merged
\* in the order fo.
search(c, arrivals, fo) ==
    merge_fruits(c, [i \in 1..Len(fo) |->
                        harvest(CollectAll(for_segment(c, fo[i]), arrivals))])

SearchInit ==
    /\ docs \in Datasets
    /\ q = NoCollector
    /\ pages = <<>>
    /\ pdone = FALSE
    /\ both = None

InitS ==
    /\ CollectorInit
    /\ SearchInit
    /\ StoreIdle

\* The first page is asked for with no Marker.
NewQuery(limit, policy) ==
    /\ q.st = "none"
    /\ q' = new(limit, policy, TrueCond)
    /\ UNCHANGED <<docs, pages, pdone, both, cvars, dvars>>

\* One page; the next is asked for with the Marker at this page's last item.
SearchPage(arrivals, fo) ==
    /\ q.st = "ok"
    /\ ~pdone
    /\ both = None
    /\ \E r \in {search(q, arrivals, fo)} :
       /\ pages' = pages \o r.items
       /\ pdone' = (r.items = <<>>)
       /\ q' = IF r.items = <<>> THEN q
               ELSE new(q.limit, q.policy, MarkerCond(r.items[Len(r.items)]))
    /\ UNCHANGED <<docs, both, cvars, dvars>>

\* An Ascending and a Descending collector with the limit of q and the
\* Condition true, fed the same documents in the same search.
SearchBoth(arrivals, fo) ==
    /\ q.st = "ok"
    /\ pages = <<>>
    /\ ~pdone
    /\ both = None
    /\ both' = Some([asc  |-> search(new(q.limit, "Ascending", TrueCond),
                                     arrivals, fo),
                     desc |-> search(new(q.limit, "Descending", TrueCond),
                                     arrivals, fo)])
    /\ UNCHANGED <<docs, q, pages, pdone, cvars, dvars>>

NextS ==
    \/ \E l \in Limits, p \in Policies : NewQuery(l, p)
    \/ \E a \in Perms(docs), fo \in Perms(Segments) : SearchPage(a, fo)
    \/ \E a \in Perms(docs), fo \in Perms(Segments) : SearchBoth(a, fo)

SpecSearch == InitS /\ [][NextS]_vars

\* ------------------------------------------------------ the record store
Ids == 0..MaxId

\* The objects stored: byte strings of one repeated byte, serialized as a
\* string is (a 64-bit length, then the bytes).
Objs == {[i \in 1..n |-> b] : n \in 0..MaxObjLen, b \in 1..MaxByte}

RECURSIVE le_bytes(_, _)
\* The k low bytes of n, the lowest first.
le_bytes(n, k) ==
    IF k = 0 THEN <<>> ELSE <<n % 256>> \o le_bytes(n \div 256, k - 1)

\* write_u64::<LittleEndian>
write_u64(n) == le_bytes(n, 8)

RECURSIVE read_le(_, _)
\* read_u64::<LittleEndian> of the 8 bytes of b that start at position i.
read_le(b, i) ==
    IF i > 8 THEN 0 ELSE b[i] + 256 * read_le(b, i + 1)

read_u64(b) == read_le(b, 1)

Ok(v) == [ok |-> TRUE, val |-> v]
Err(e) == [ok |-> FALSE, val |-> e]

\* bincode::serialize
serialize(obj) == write_u64(Len(obj)) \o obj

\* deserialize_local: reads one object from the start of bytes and ignores
\* what follows it.
deserialize_local(bytes) ==
    IF Len(bytes) < 8 THEN Err("Failed to deserialize")
    ELSE LET n == read_u64(SubSeq(bytes, 1, 8)) IN
         IF Len(bytes) < 8 + n THEN Err("Failed to deserialize")
         ELSE Ok(SubSeq(bytes, 9, 8 + n))

\* AppendOnlyMappedFile
file_len(f) == Len(f)
file_append(f, bytes) == f \o bytes
from_offset(f, offset) ==
    IF offset > Len(f) THEN Err("out of bounds")
    ELSE Ok(SubSeq(f, offset + 1, Len(f)))
\* each_chunk(size): the whole chunks of the file, in order.
chunks(f, size) ==
    [i \in 1..(Len(f) \div size) |-> SubSeq(f, size * (i - 1) + 1, size * i)]

\* HashMap::insert
insert(m, k, v) == [x \in DOMAIN m \cup {k} |-> IF x = k THEN v ELSE m[x]]

RECURSIVE replay(_, _)
\* The index after the log entries cs, starting from m.
replay(m, cs) ==
    IF cs = <<>> THEN m
    ELSE replay(insert(m, read_u64(SubSeq(Head(cs), 1, 8)),
                          read_u64(SubSeq(Head(cs), 9, 16))),
                Tail(cs))

RECURSIVE replay_first(_, _)
\* The replay keeping the first entry of an id instead of the last.
replay_first(m, cs) ==
    IF cs = <<>> THEN m
    ELSE LET id == read_u64(SubSeq(Head(cs), 1, 8)) IN
         replay_first(IF id \in DOMAIN m THEN m
                      ELSE insert(m, id, read_u64(SubSeq(Head(cs), 9, 16))),
                      Tail(cs))

\* new with an index in which a known id is not replaced.
open_first_wins(log, dat) ==
    LET cs == chunks(log, 16)
        max_offset == IF cs = <<>> THEN 0
                      ELSE read_u64(SubSeq(cs[Len(cs)], 9, 16))
    IN  IF max_offset > 0 /\ max_offset >= file_len(dat)
        THEN [st |-> "failed", index |-> <<>>]
        ELSE [st |-> "open", index |-> replay_first(<<>>, cs)]

\* BincodeDatabase::new
open(log, dat) ==
    LET cs == chunks(log, 16)
        max_offset == IF cs = <<>> THEN 0
                      ELSE read_u64(SubSeq(cs[Len(cs)], 9, 16))
    IN  IF max_offset > 0 /\ max_offset >= file_len(dat)
        THEN [st |-> "failed", index |-> <<>>]
        ELSE [st |-> "open", index |-> replay(<<>>, cs)]

\* add taking the offset after the append instead of before it.
add_offset_late(d, id, obj, outcome) ==
    CASE outcome = "serialize" -> d
      [] outcome = "data" -> d
      [] outcome = "log" ->
            [d EXCEPT !.data = file_append(@, serialize(obj))]
      [] outcome = "ok" ->
            LET grown == file_append(d.data, serialize(obj))
                cur_offset == file_len(grown)
            IN  [data  |-> grown,
                 logf  |-> file_append(d.logf,
                              write_u64(id) \o write_u64(cur_offset)),
                 index |-> insert(d.index, id, cur_offset)]

\* add appending the log entry before the data.
add_log_first(d, id, obj, outcome) ==
    LET cur_offset == file_len(d.data)
        logged == file_append(d.logf, write_u64(id) \o write_u64(cur_offset))
    IN  CASE outcome = "serialize" -> d
          [] outcome = "log" -> d
          [] outcome = "data" -> [d EXCEPT !.logf = logged]
          [] outcome = "ok" ->
                [data  |-> file_append(d.data, serialize(obj)),
                 logf  |-> logged,
                 index |-> insert(d.index, id, cur_offset)]

\* Database::add on d = [data, logf, index]; outcome names the step that
\* fails ("serialize", "data", "log") or "ok". A failed append leaves its
\* file as it was.
add(d, id, obj, outcome) ==
    CASE outcome = "serialize" -> d
      [] outcome = "data" -> d
      [] outcome = "log" ->
            [d EXCEPT !.data = file_append(@, serialize(obj))]
      [] outcome = "ok" ->
            LET cur_offset == file_len(d.data) IN
            [data  |-> file_append(d.data, serialize(obj)),
             logf  |-> file_append(d.logf,
                          write_u64(id) \o write_u64(cur_offset)),
             index |-> insert(d.index, id, cur_offset)]

\* Database::get
get(index, dat, id) ==
    IF id \notin DOMAIN index THEN Ok(None)
    ELSE LET found == from_offset(dat, index[id]) IN
         IF ~found.ok THEN found
         ELSE LET obj == deserialize_local(found.val) IN
              IF obj.ok THEN Ok(Some(obj.val)) ELSE obj

Outcomes == {"ok", "serialize", "data", "log"}

StoreInit ==
    /\ data = <<>>
    /\ logf = <<>>
    /\ db = [st |-> "closed", index |-> <<>>]
    /\ last = <<>>
    /\ nadds = 0

InitD ==
    /\ CollectorInit
    /\ SearchIdle
    /\ StoreInit

Open ==
    /\ db.st = "closed"
    /\ db' = open(logf, data)
    /\ UNCHANGED <<data, logf, last, nadds, cvars, svars>>

Add(id, obj, outcome) ==
    /\ db.st = "open"
    /\ nadds < MaxAdds
    /\ \E r \in {add([data |-> data, logf |-> logf, index |-> db.index],
                     id, obj, outcome)} :
          /\ data' = r.data
          /\ logf' = r.logf
          /\ db' = [db EXCEPT !.index = r.index]
    /\ last' = IF outcome = "ok" THEN insert(last, id, obj) ELSE last
    /\ nadds' = nadds + 1
    /\ UNCHANGED <<cvars, svars>>

\* The store is dropped; its files stay.
Close ==
    /\ db.st = "open"
    /\ db' = [st |-> "closed", index |-> <<>>]
    /\ UNCHANGED <<data, logf, last, nadds, cvars, svars>>

NextD ==
    \/ Open
    \/ \E id \in Ids, obj \in Objs, o \in Outcomes : Add(id, obj, o)
    \/ Close

SpecDb == InitD /\ [][NextD]_vars

\* ------------------------------------- a directory found as something left it
\* The logs: up to MaxEntries entries (id, offset), each 16 bytes.
RECURSIVE LogsOf(_)
LogsOf(n) ==
    IF n = 0 THEN {<<>>}
    ELSE LogsOf(n - 1) \cup
         {l \o write_u64(id) \o write_u64(off) :
             l \in {x \in LogsOf(n - 1) : Len(x) = 16 * (n - 1)},
             id \in Ids, off \in 0..MaxOffset}

\* The data files: up to MaxDataLen bytes.
DataFiles == {[i \in 1..n |-> 0] : n \in 0..MaxDataLen}

InitO ==
    /\ CollectorInit
    /\ SearchIdle
    /\ data \in DataFiles
    /\ logf \in LogsOf(MaxEntries)
    /\ db = [st |-> "closed", index |-> <<>>]
    /\ last = <<>>
    /\ nadds = 0

NextO == Open

SpecOpen == InitO /\ [][NextO]_vars

\* ------------------------------------------------ the order, as the claims state it
\* Candidate score c is strictly worse than score m under the direction.
ScoreWorse(policy, c, m) ==
    IF policy = "Descending" THEN c < m ELSE c > m

\* Address a sorts strictly after address m.
AddrAfter(a, m) == a[1] > m[1] \/ (a[1] = m[1] /\ a[2] > m[2])

\* A candidate strictly after the Marker m: a worse score, or the same score
\* and a later address.
AfterMarker(policy, m, score, addr) ==
    \/ ScoreWorse(policy, score, m[1])
    \/ (score = m[1] /\ AddrAfter(addr, m[2]))

\* Item a comes strictly before item b.
InOrder(policy, a, b) == AfterMarker(policy, a, b[1], b[2])

Sorted(policy, s) ==
    \A i, j \in 1..Len(s) : i < j => InOrder(policy, s[i], s[j])

\* The item a call collect(doc, score) on segment s stands for.
ItemOf(s, x) == <<x[2], <<s, x[1]>>>>

C3_MergeOrderFree ==
    merged # None =>
        LET r == Get(merged) IN
        /\ Len(r.items) <= tc.limit
        /\ Sorted(tc.policy, r.items)
        /\ \A o \in Perms(Segments) :
              merge_fruits(tc, [i \in 1..Len(o) |-> Get(fruits[o[i]])]) = r

\* Two items of different segments with the same score were merged.
C3_Witness ==
    /\ merged # None
    /\ Len(Get(merged).items) = 2
    /\ Get(merged).items[1][1] = Get(merged).items[2][1]
    /\ Get(merged).items[1][2][1] # Get(merged).items[2][2][1]

\* ------------------------------------------------------------------ C4
\* C4: a harvested fruit holds at most min(limit, visited) items.
C4_FruitBounded ==
    \A s \in Segments :
        fruits[s] # None =>
            Len(Get(fruits[s]).items) <= Min(tc.limit, Get(fruits[s]).visited)

\* More documents passed the Condition than the container holds.
C4_Witness ==
    \E s \in Segments :
        /\ fruits[s] # None
        /\ Len(Get(fruits[s]).items) = tc.limit
        /\ Get(fruits[s]).visited > tc.limit

\* ------------------------------------------------------------------ C5
\* C5: the total of a harvested fruit is the number of collect calls made
\* on its collector.
C5_TotalCountsCalls ==
    \A s \in Segments :
        fruits[s] # None => Get(fruits[s]).total = Cardinality(seen[s])

\* Two calls, one of which the Condition rejected.
C5_Witness ==
    \E s \in Segments :
        /\ fruits[s] # None
        /\ Get(fruits[s]).total = 2
        /\ Get(fruits[s]).visited < 2

\* ------------------------------------------------------------------ C6
\* C6: the visited of a harvested fruit is the number of collect calls for
\* which the Condition returned true.
C6_VisitedCountsPasses ==
    \A s \in Segments :
        fruits[s] # None =>
            Get(fruits[s]).visited =
                Cardinality({x \in seen[s] :
                               check(tc.condition, tc.policy, s, x[1], x[2])})

\* A filtering Condition passed one call and rejected another.
C6_Witness ==
    \E s \in Segments :
        /\ tc.condition.kind = "odd"
        /\ fruits[s] # None
        /\ Get(fruits[s]).visited = 1
        /\ Cardinality(seen[s]) = 2

\* ------------------------------------------------------------------ C7
Ordered3(total, visited, n) == total >= visited /\ visited >= n

\* C7: total >= visited >= number of items, in every segment collector,
\* every harvested fruit and the merged fruit.
C7_CountersOrdered ==
    /\ \A s \in Segments :
          /\ segc[s] # None =>
                Ordered3(Get(segc[s]).total, Get(segc[s]).visited,
                         Len(Get(segc[s]).topk.heap))
          /\ fruits[s] # None =>
                Ordered3(Get(fruits[s]).total, Get(fruits[s]).visited,
                         Len(Get(fruits[s]).items))
    /\ merged # None =>
          Ordered3(Get(merged).total, Get(merged).visited,
                   Len(Get(merged).items))

\* A merged fruit that saw more documents than it visited, and kept one.
C7_Witness ==
    /\ merged # None
    /\ Get(merged).total > Get(merged).visited
    /\ Get(merged).visited >= 1
    /\ Len(Get(merged).items) >= 1

\* ------------------------------------------------------------------ C8
\* C8: construction with limit < 1 panics and nothing is derived from the
\* collector; with limit >= 1 it succeeds, and the limit never changes: every
\* container built from the collector has that capacity and the merged fruit
\* has at most that many items.
C8_LimitChecked ==
    /\ [](/\ tc.st = "panicked" =>
               /\ tc.limit < 1
               /\ \A s \in Segments : segc[s] = None /\ fruits[s] = None
               /\ merged = None
          /\ tc.st = "ok" =>
               /\ tc.limit >= 1
               /\ \A s \in Segments :
                     segc[s] # None => Get(segc[s]).topk.limit = tc.limit
               /\ merged # None => Len(Get(merged).items) <= tc.limit)
    /\ [][tc.st # "none" => tc' = tc]_vars

\* A collector was asked for with limit 0.
C8_Witness == tc.st = "panicked" /\ tc.limit = 0

\* ------------------------------------------------------------------ C1
\* The full ordered list of the matching documents under the Policy.
FullOrder(policy) == CHOOSE p \in Perms(docs) : Sorted(policy, p)

ScoresOf(r) == [i \in 1..Len(r.items) |-> r.items[i][1]]

Reverse(s) == [i \in 1..Len(s) |-> s[Len(s) + 1 - i]]

\* C9 as stated: for any index and any limit, the score sequences of the
\* Ascending and of the Descending result are reverses of one another.
C9_Original ==
    both # None =>
        ScoresOf(Get(both).asc) = Reverse(ScoresOf(Get(both).desc))

\* C9, amended: the score sequences are reverses of one another when the
\* limit is at least the number of matching documents.
C9_ReversedWhenAllFit ==
    (both # None /\ q.limit >= Cardinality(docs)) =>
        ScoresOf(Get(both).asc) = Reverse(ScoresOf(Get(both).desc))

\* Both collectors returned every document, of two segments and with two
\* different scores.
C9_Witness ==
    /\ both # None
    /\ q.limit >= Cardinality(docs)
    /\ Len(Get(both).asc.items) >= 2
    /\ \E i, j \in 1..Len(Get(both).asc.items) :
          /\ Get(both).asc.items[i][1] # Get(both).asc.items[j][1]
          /\ Get(both).asc.items[i][2][1] # Get(both).asc.items[j][2][1]

\* ------------------------------------------------------------------ C10
\* C10: in an open store, get(id) returns the object most recently added
\* under id by a successful add, and Ok(None) for an id never added.
C10_GetReturnsLastAdded ==
    db.st = "open" =>
        \A id \in Ids :
            get(db.index, data, id) =
                IF id \in DOMAIN last THEN Ok(Some(last[id])) ELSE Ok(None)

\* One id was added twice, with two different objects, and another never.
C10_Witness ==
    /\ db.st = "open"
    /\ Len(logf) = 32
    /\ \E id \in Ids :
          /\ DOMAIN last = {id}
          /\ deserialize_local(data) # Ok(last[id])

\* ------------------------------------------------------------------ C11
\* C11: whenever a store is open on a directory, a second store opened on
\* the same directory (the log replayed from its start) opens, and its
\* get(id) is the get(id) of the store that did the writes, for every id.
C11_ReopenAgrees ==
    db.st = "open" =>
        LET existing_db == open(logf, data) IN
        /\ existing_db.st = "open"
        /\ \A id \in Ids :
              get(existing_db.index, data, id) = get(db.index, data, id)

\* The log holds two entries of one id, written with two different objects,
\* and the store open on it answers with the second.
C11_Witness ==
    /\ db.st = "open"
    /\ nadds = 2
    /\ Len(chunks(logf, 16)) = 2
    /\ \E id \in Ids :
          /\ \A i \in 1..2 : read_u64(SubSeq(chunks(logf, 16)[i], 1, 8)) = id
          /\ deserialize_local(data) # Ok(last[id])
          /\ get(open(logf, data).index, data, id) = Ok(Some(last[id]))

\* ------------------------------------------- a collect call, as a step
\* The step is a collect call on the collector of segment s.
CollectStep(s) == segc[s] # None /\ segc'[s] # None /\ seen'[s] # seen[s]

\* The <<doc, score>> that call was made with.
CollectArg(s) == CHOOSE x \in seen'[s] : x \notin seen[s]

\* The Condition of the collector let that call through.
CollectPassed(s) ==
    check(tc.condition, tc.policy, s, CollectArg(s)[1], CollectArg(s)[2])

\* ------------------------------------------------------------------ C12
\* Score a is strictly better than score b under the direction.
ScoreBetter(policy, a, b) == ScoreWorse(policy, b, a)

\* Entry a = <<score, doc_id>> is strictly before entry b in the Policy's
\* total order: a better score, or the same score and a smaller doc_id.
EntryBefore(policy, a, b) ==
    \/ ScoreBetter(policy, a[1], b[1])
    \/ (a[1] = b[1] /\ a[2] < b[2])

\* Container k2 is container k with entry w replaced by entry e.
Replaced(k, k2, w, e) ==
    /\ w \in Range(k.heap)
    /\ Len(k2.heap) = Len(k.heap)
    /\ Range(k2.heap) = (Range(k.heap) \ {w}) \cup {e}

\* Container k2 is container k with entry e added.
Inserted(k, k2, e) ==
    /\ Len(k2.heap) = Len(k.heap) + 1
    /\ Range(k2.heap) = Range(k.heap) \cup {e}

Passed(s) ==
    {ItemOf(s, arrived[s][i]) : i \in
        {j \in 1..Len(arrived[s]) :
            check(tc.condition, tc.policy, s, arrived[s][j][1], arrived[s][j][2])}}

AllPassed == UNION {Passed(s) : s \in Segments}

\* ------------------------------------------------------------------ C13
\* C13: once the fruits are merged, the merged items are Condition-passing
\* documents, as many as min(limit, number of passing documents), and no
\* passing document left out has a score strictly better than a document
\* that is in.
C13_BestKept ==
    merged # None =>
        LET in == Range(Get(merged).items) IN
        /\ in \subseteq AllPassed
        /\ Len(Get(merged).items) = Min(tc.limit, Cardinality(AllPassed))
        /\ \A out \in AllPassed \ in : \A it \in in :
              ~ScoreBetter(tc.policy, out[1], it[1])

\* A segment let more documents through than its container holds, trimmed
\* one of them, and the fruits were merged.
C13_Witness ==
    /\ merged # None
    /\ Len(Get(merged).items) >= 1
    /\ \E s \in Segments :
          Get(fruits[s]).visited > Len(Get(fruits[s]).items)

\* ------------------------------------------------------------------ C14
\* The items of all the segment fruits.
FruitItems == UNION {Range(Get(fruits[s]).items) : s \in Segments}

\* C14: the merged fruit's total and visited are the sums of the segment
\* fruits' totals and visiteds, and its items are the first limit items of
\* the fruits' items put in order: sorted, each one an item of a fruit, none
\* twice, min(limit, number of fruit items) of them, and none left out that
\* comes before one that is in.
C14_MergeSumsAndTrims ==
    merged # None =>
        LET m == Get(merged) IN
        /\ m.total = SumOf([i \in 1..NumSegs |-> Get(fruits[i - 1])], "total")
        /\ m.visited = SumOf([i \in 1..NumSegs |-> Get(fruits[i - 1])], "visited")
        /\ Sorted(tc.policy, m.items)
        /\ Range(m.items) \subseteq FruitItems
        /\ Len(m.items) = Min(tc.limit, Cardinality(FruitItems))
        /\ \A out \in FruitItems \ Range(m.items) : \A it \in Range(m.items) :
              InOrder(tc.policy, it, out)

\* The fruits of two segments held more items than limit together.
C14_Witness ==
    /\ merged # None
    /\ Cardinality(FruitItems) > tc.limit
    /\ \A s \in Segments : Get(fruits[s]).total >= 1

\* ------------------------------------------------------------------ C17
RECURSIVE CollectSeq(_, _)
\* The collector after the collect calls of stream, made one after another.
CollectSeq(sc, stream) ==
    IF stream = <<>> THEN sc
    ELSE CollectSeq(collect(sc, Head(stream)[1], Head(stream)[2]), Tail(stream))

\* The fruit of segment s when its stream is collected with nothing else
\* running.
AloneFruit(s) == harvest(CollectSeq(for_segment(tc, s), arrived[s]))

\* C17: a collect call on one segment changes nothing of the other segments'
\* collectors and fruits; and whatever the interleaving of the calls and the
\* order of the harvests, every collector, every fruit and the merged result
\* are what the segments' streams give when each is collected alone, one
\* segment after the other.
C17_InterleavingFree ==
    /\ [](/\ \A s \in Segments :
               /\ segc[s] # None =>
                     Get(segc[s]) = CollectSeq(for_segment(tc, s), arrived[s])
               /\ fruits[s] # None => Get(fruits[s]) = AloneFruit(s)
          /\ merged # None =>
               Get(merged) =
                  merge_fruits(tc, [i \in 1..NumSegs |-> AloneFruit(i - 1)]))
    /\ [][\A s \in Segments :
             arrived'[s] # arrived[s] =>
                /\ \A t \in Segments \ {s} : segc'[t] = segc[t]
                /\ fruits' = fruits
                /\ merged' = merged
                /\ tc' = tc]_vars

\* Two segments each collected a document, and the fruits were merged.
C17_Witness ==
    /\ merged # None
    /\ \E s, t \in Segments :
          /\ s # t
          /\ Len(arrived[s]) >= 1
          /\ Len(arrived[t]) >= 1

\* ------------------------------------------------------------------ C15
\* The calls made on segment s that its Condition let through.
Through(s) ==
    {x \in seen[s] : check(tc.condition, tc.policy, s, x[1], x[2])}

\* C15: a harvested fruit holds exactly min(limit, visited) items; none with
\* the always-false Condition, every document with the always-true Condition
\* when there are at most limit of them, and every document that passed a
\* filtering Condition when at most limit passed.
C15_ItemsAreMinLimitVisited ==
    \A s \in Segments :
        fruits[s] # None =>
            LET f == Get(fruits[s]) IN
            /\ Len(f.items) = Min(tc.limit, f.visited)
            /\ tc.condition.kind = "false" => Len(f.items) = 0
            /\ (tc.condition.kind = "true" /\ Cardinality(seen[s]) <= tc.limit)
                  => Len(f.items) = Cardinality(seen[s])
            /\ Cardinality(Through(s)) <= tc.limit
                  => Len(f.items) = Cardinality(Through(s))

\* A filtering Condition rejected one document and passed another, which
\* was harvested, with room to spare in the container.
C15_Witness ==
    \E s \in Segments :
        /\ tc.condition.kind = "odd"
        /\ tc.limit = 2
        /\ fruits[s] # None
        /\ Get(fruits[s]).total = 2
        /\ Len(Get(fruits[s]).items) = 1

\* ------------------------------------------------------------------ C16
\* C16: every item of a harvested fruit is (score, DocAddress(segment_id,
\* doc_id)) with the collector's own segment_id and a (doc_id, score) that a
\* collect call on that collector was made with and the Condition let
\* through; a document the Condition rejected is in no fruit.
C16_ItemsWereCollected ==
    \A s \in Segments :
        fruits[s] # None =>
            /\ \A it \in Range(Get(fruits[s]).items) :
                  /\ it[2][1] = s
                  /\ <<it[2][2], it[1]>> \in Through(s)
            /\ \A x \in seen[s] \ Through(s) :
                  \A t \in Segments :
                     fruits[t] # None => ItemOf(s, x) \notin Range(Get(fruits[t]).items)

\* A collector of a segment other than 0 rejected a document and harvested
\* another, whose doc_id is not its segment_id.
C16_Witness ==
    \E s \in Segments :
        /\ s # 0
        /\ fruits[s] # None
        /\ seen[s] \ Through(s) # {}
        /\ \E it \in Range(Get(fruits[s]).items) : it[2][2] # s

\* ------------------------------------------------------------------ C18
\* C18: a collect call the Condition rejects adds one to total and leaves
\* visited, the container, the segment id and the Condition as they were; a
\* call it lets through adds one to total and to visited and leaves the
\* container as a single visit(score, doc_id) leaves it; no other collector,
\* no fruit and not the TopCollector is touched.
C18_CollectFrame ==
    [][\A s \in Segments :
          CollectStep(s) =>
             LET c == Get(segc[s])
                 c2 == Get(segc'[s])
                 doc == CollectArg(s)[1]
                 score == CollectArg(s)[2]
             IN  /\ c2.total = c.total + 1
                 /\ c2.segment_id = c.segment_id
                 /\ c2.condition = c.condition
                 /\ c2.topk.limit = c.topk.limit
                 /\ c2.topk.policy = c.topk.policy
                 /\ IF CollectPassed(s)
                    THEN /\ c2.visited = c.visited + 1
                         /\ c2.topk = visit(c.topk, score, doc)
                    ELSE /\ c2.visited = c.visited
                         /\ c2.topk = c.topk
                 /\ \A t \in Segments \ {s} : segc'[t] = segc[t]
                 /\ fruits' = fruits
                 /\ tc' = tc]_vars

\* A collector that rejected one call and let another through, which its
\* container kept.
C18_Witness ==
    \E s \in Segments :
        /\ segc[s] # None
        /\ Get(segc[s]).total = 2
        /\ Get(segc[s]).visited = 1
        /\ Len(Get(segc[s]).topk.heap) = 1

\* ------------------------------------------------------------------ C19
\* C19: when the index the log replays to holds an offset that is not
\* inside the data file, opening fails (InvalidData, "index points at
\* unreachable"); for every log and data file, a log entry with offset 0
\* over an empty data file included.
C19_UnreachableRejected ==
    db.st # "closed" =>
        LET index == replay(<<>>, chunks(logf, 16)) IN
        (\E id \in DOMAIN index : index[id] >= file_len(data))
            => db.st = "failed"

\* ------------------------------------------------------------------ C20
\* The offsets the log records, in the order of its entries.
LogOffsets ==
    LET cs == chunks(logf, 16) IN
    [i \in 1..Len(cs) |-> read_u64(SubSeq(cs[i], 9, 16))]

\* A whole record is in the data file at offset.
RecordAt(offset) ==
    /\ offset < file_len(data)
    /\ from_offset(data, offset).ok
    /\ deserialize_local(from_offset(data, offset).val).ok

\* C20: after any adds, failed and interrupted ones included, every offset
\* of the index and every offset of the log is the start of a record that
\* is whole in the data file, the offsets of the log are strictly
\* increasing, and opening the directory does not fail; and an add that
\* fails (it records no log entry) leaves the index as it was.
C20_OffsetsReachable ==
    /\ [](/\ \A i \in 1..Len(LogOffsets) : RecordAt(LogOffsets[i])
          /\ \A i, j \in 1..Len(LogOffsets) :
                i < j => LogOffsets[i] < LogOffsets[j]
          /\ Len(logf) % 16 = 0
          /\ \A id \in DOMAIN db.index : RecordAt(db.index[id])
          /\ db.st # "failed"
          /\ open(logf, data).st = "open")
    /\ [][(nadds' = nadds + 1 /\ logf' = logf) => db'.index = db.index]_vars

\* An add was interrupted after its data append, the next add succeeded
\* behind the record left over, and the store was opened on the result.
C20_Witness ==
    /\ db.st = "open"
    /\ nadds = 2
    /\ Len(LogOffsets) = 1
    /\ LogOffsets[1] > 0
    /\ db.index = open(logf, data).index

=============================================================================
